---- MODULE Spec2Model ----
(***************************************************************************)
(* Model of rescript_ast_diff/differ.py: the declaration extractor         *)
(* (extract_components, get_decl_name), the canonicalizer (ast_to_tuple),  *)
(* the diff engine (diff_components) and the two entry points of           *)
(* RescriptFileDiff (compare_two_files, process_single_file) that fill the *)
(* nine lists of a DetailedChanges report.                                 *)
(*                                                                         *)
(* Text is a sequence of bytes (integers).  Bytes below 128 are ASCII; the *)
(* byte 255 never occurs in valid UTF-8.  A Python str is the sequence of  *)
(* its code points, so that sorted() is the lexicographic order on them.   *)
(***************************************************************************)
EXTENDS Integers, Sequences, FiniteSets, TLC

VARIABLES changes, oldT, newT, op, arg, calls, raised

vars == <<changes, oldT, newT, op, arg, calls, raised>>

(* ------------------------------------------------------------------ *)
(* Bounds of the model                                                *)
(* ------------------------------------------------------------------ *)
\* most top-level items of one file in SpecTree and SpecNode
MaxItems == 2
\* the number of function names the two file versions of Spec draw from
MaxNames == 2
\* most calls made on one RescriptFileDiff instance
MaxCalls == 2

(* ------------------------------------------------------------------ *)
(* bytes, str                                                         *)
(* ------------------------------------------------------------------ *)
\* Python's None, where a str is expected (no str holds a negative code point)
None == <<-1>>

\* bytes.decode(errors="ignore"): invalid bytes are dropped
DecodeIgnore(bytes) == SelectSeq(bytes, LAMBDA b : b < 128)

\* bytes.decode() raises UnicodeDecodeError on an invalid byte
DecodeRaises(bytes) == \E i \in DOMAIN bytes : bytes[i] >= 128

\* str(x) inside an f-string
Str(x) == IF x = None THEN <<78, 111, 110, 101>> ELSE x

\* the truth value of a name: None and "" are false
Truthy(x) == x # None /\ x # <<>>

\* s < t for two str (lexicographic on code points)
RECURSIVE StrLess(_, _)
StrLess(s, t) ==
  IF t = <<>> THEN FALSE
  ELSE IF s = <<>> THEN TRUE
  ELSE IF s[1] # t[1] THEN s[1] < t[1]
  ELSE StrLess(Tail(s), Tail(t))

\* sorted(names) for a set of str
RECURSIVE sorted(_)
sorted(S) ==
  IF S = {} THEN <<>>
  ELSE LET m == CHOOSE x \in S : \A y \in S \ {x} : StrLess(x, y)
       IN  <<m>> \o sorted(S \ {m})

(* ------------------------------------------------------------------ *)
(* tree_sitter.Node as the parser builds it                           *)
(* ------------------------------------------------------------------ *)
RECURSIVE Join(_, _)
Join(texts, sep) ==
  IF texts = <<>> THEN <<>>
  ELSE IF Len(texts) = 1 THEN texts[1]
  ELSE texts[1] \o sep \o Join(Tail(texts), sep)

RECURSIVE Shift(_, _, _)
Shift(n, dr, dc) ==
  [n EXCEPT !.start_point = <<@[1] + dr, @[2] + dc>>,
            !.end_point = <<@[1] + dr, @[2] + dc>>,
            !.children = [i \in DOMAIN n.children |-> Shift(n.children[i], dr, dc)]]

\* a token: a node without children, its text is its own span
Leaf(type, named, text) ==
  [type |-> type, is_named |-> named, text |-> text, children |-> <<>>,
   start_point |-> <<0, 0>>, end_point |-> <<0, Len(text)>>]

\* a node with children, on one line: its text spans the children and the
\* whitespace between them, gaps[i] standing between child i and child i+1
Inner(type, named, kids, gaps) ==
  LET RECURSIVE upto(_)
      upto(i) == IF i = 0 THEN <<>>
                 ELSE upto(i - 1) \o (IF i > 1 THEN gaps[i - 1] ELSE <<>>) \o kids[i].text
      text == upto(Len(kids))
      off(i) == IF i = 1 THEN 0 ELSE Len(upto(i - 1)) + Len(gaps[i - 1])
  IN  [type |-> type, is_named |-> named, text |-> text,
       children |-> [i \in DOMAIN kids |-> Shift(kids[i], 0, off(i))],
       start_point |-> <<0, 0>>, end_point |-> <<0, Len(text)>>]

\* gaps of one space, and no gaps, between n children
Spaced(n) == [i \in 1..(n - 1) |-> <<32>>]
Tight(n) == [i \in 1..(n - 1) |-> <<>>]

\* the root of a parsed file: one item per line
Root(type, items) ==
  LET texts == [i \in DOMAIN items |-> items[i].text]
      text == Join(texts, <<10>>)
  IN  [type |-> type, is_named |-> TRUE, text |-> text,
       children |-> [i \in DOMAIN items |-> Shift(items[i], i - 1, 0)],
       start_point |-> <<0, 0>>,
       end_point |-> IF items = <<>> THEN <<0, 0>>
                     ELSE <<Len(items) - 1, Len(items[Len(items)].text)>>]

\* a node of a tree is named by the path of child indices from the root
RECURSIVE NodeAt(_, _)
NodeAt(tree, path) ==
  IF path = <<>> THEN tree
  ELSE NodeAt(tree.children[Head(path)], Tail(path))

HasParent(path) == path # <<>>
Parent(path) == SubSeq(path, 1, Len(path) - 1)

(* ------------------------------------------------------------------ *)
(* RescriptFileDiff.get_decl_name                                     *)
(* ------------------------------------------------------------------ *)
\* the texts the loops of get_decl_name would return, in the order the
\* loops meet them; node_type = "" stands for node_type=None
NameCandidates(node, node_type, name_type) ==
  LET ofChild(child) ==
        IF node_type # "" /\ child.type = node_type
        THEN LET hits == SelectSeq(child.children,
                           LAMBDA g : g.is_named /\ g.type = name_type)
             IN  [i \in DOMAIN hits |-> DecodeIgnore(hits[i].text)]
        ELSE IF node_type = "" /\ child.is_named /\ child.type = name_type
        THEN <<DecodeIgnore(child.text)>>
        ELSE <<>>
      RECURSIVE all(_)
      all(cs) == IF cs = <<>> THEN <<>> ELSE ofChild(Head(cs)) \o all(Tail(cs))
  IN  all(node.children)

get_decl_name(node, node_type, name_type) ==
  LET c == NameCandidates(node, node_type, name_type)
  IN  IF c = <<>> THEN None ELSE c[1]

(* ------------------------------------------------------------------ *)
(* RescriptFileDiff.ast_to_tuple                                      *)
(* ------------------------------------------------------------------ *)
\* (type, text) is [leaf |-> TRUE], (type, (children...)) is [leaf |-> FALSE]
RECURSIVE ast_to_tuple(_)
ast_to_tuple(node) ==
  LET named_children == SelectSeq(node.children, LAMBDA c : c.is_named)
  IN  IF named_children = <<>>
      THEN [type |-> node.type, leaf |-> TRUE,
            text |-> DecodeIgnore(node.text), kids |-> <<>>]
      ELSE [type |-> node.type, leaf |-> FALSE, text |-> <<>>,
            kids |-> [i \in DOMAIN named_children |->
                        ast_to_tuple(named_children[i])]]

(* ------------------------------------------------------------------ *)
(* RescriptFileDiff.extract_components                                *)
(* ------------------------------------------------------------------ *)
\* functions[name] = ... on a dict
Put(map, k, v) == [x \in DOMAIN map \cup {k} |-> IF x = k THEN v ELSE map[x]]

\* the dict {}
EmptyMap == [x \in {} |-> <<>>]

\* (ast_repr, body_text, node.start_point, node.end_point); Python's index 1,
\* the body text, is index 2 here
Entry(node) ==
  <<ast_to_tuple(node), DecodeIgnore(node.text), node.start_point, node.end_point>>

\* the try block of the let_declaration branch:
\* f"{node.parent.parent.child(0).text.decode()} --> {name}", and name itself
\* when any step of it raises
QualifiedName(tree, path, name) ==
  LET pp == Parent(path)
  IN  IF ~HasParent(pp) THEN name
      ELSE LET gp == NodeAt(tree, Parent(pp))
           IN  IF gp.children = <<>> THEN name
               ELSE IF DecodeRaises(gp.children[1].text) THEN name
               ELSE gp.children[1].text \o <<32, 45, 45, 62, 32>> \o Str(name)

\* [extract_components with the children pushed first child last]
NamedChildrenInOrder(tree, path) ==
  LET n == NodeAt(tree, path)
      k == Len(n.children)
      fwd == [i \in 1..k |-> path \o <<i>>]
  IN  SelectSeq(fwd, LAMBDA q : NodeAt(tree, q).is_named)

\* the paths of the named children of the node at path, last child first
ReversedNamedChildren(tree, path) ==
  LET n == NodeAt(tree, path)
      k == Len(n.children)
      rev == [i \in 1..k |-> path \o <<k + 1 - i>>]
  IN  SelectSeq(rev, LAMBDA q : NodeAt(tree, q).is_named)

\* one iteration of the while loop.  visited is the list of the declaration
\* nodes the loop has popped, with the key each was stored under (None when
\* it was skipped); raised is set when line 96 reads .type of a missing parent
LoopBody(tree, st) ==
  LET path == st.stack[Len(st.stack)]
      rest == SubSeq(st.stack, 1, Len(st.stack) - 1)
      node == NodeAt(tree, path)
      seen(cat, key) == Append(st.visited, [path |-> path, cat |-> cat, key |-> key])
  IN  IF node.type = "let_declaration"
      THEN LET name0 == get_decl_name(node, "let_binding", "value_identifier")
           IN  IF ~HasParent(path)
               THEN [st EXCEPT !.stack = <<>>, !.raised = TRUE]
               ELSE LET name == IF NodeAt(tree, Parent(path)).type # "source_file"
                                THEN QualifiedName(tree, path, name0)
                                ELSE name0
                    IN  IF Truthy(name)
                        THEN [st EXCEPT !.stack = rest,
                                        !.functions = Put(@, name, Entry(node)),
                                        !.visited = seen("functions", name)]
                        ELSE [st EXCEPT !.stack = rest,
                                        !.visited = seen("functions", None)]
      ELSE IF node.type = "type_declaration"
      THEN LET name == get_decl_name(node, "type_binding", "type_identifier")
           IN  IF Truthy(name)
               THEN [st EXCEPT !.stack = rest,
                               !.types = Put(@, name, Entry(node)),
                               !.visited = seen("types", name)]
               ELSE [st EXCEPT !.stack = rest, !.visited = seen("types", None)]
      ELSE IF node.type = "external_declaration"
      THEN LET name == get_decl_name(node, "", "value_identifier")
           IN  IF Truthy(name)
               THEN [st EXCEPT !.stack = rest,
                               !.externals = Put(@, name, Entry(node)),
                               !.visited = seen("externals", name)]
               ELSE [st EXCEPT !.stack = rest, !.visited = seen("externals", None)]
      ELSE [st EXCEPT !.stack = rest \o ReversedNamedChildren(tree, path)]

RECURSIVE Loop(_, _)
Loop(tree, st) == IF st.stack = <<>> THEN st ELSE Loop(tree, LoopBody(tree, st))

\* extract_components(tree.root_node)
extract_components(tree) ==
  Loop(tree, [stack |-> << <<>> >>, functions |-> EmptyMap, types |-> EmptyMap,
              externals |-> EmptyMap, visited |-> <<>>, raised |-> FALSE])

(* ------------------------------------------------------------------ *)
(* RescriptFileDiff.diff_components                                   *)
(* ------------------------------------------------------------------ *)
\* [diff_components with deleted_names = before_names]
diff_components_no_subtraction(before_map, after_map) ==
  LET names == sorted(DOMAIN before_map)
      addedSorted == sorted(DOMAIN after_map \ DOMAIN before_map)
      changed == SelectSeq(sorted(DOMAIN before_map \cap DOMAIN after_map),
                   LAMBDA n : before_map[n][1] # after_map[n][1])
  IN  [added |-> [i \in DOMAIN addedSorted |->
                    <<addedSorted[i], after_map[addedSorted[i]][2]>>],
       deleted |-> [i \in DOMAIN names |-> <<names[i], before_map[names[i]][2]>>],
       modified |-> [i \in DOMAIN changed |->
                    <<changed[i], before_map[changed[i]][2], after_map[changed[i]][2],
                      [old_start |-> before_map[changed[i]][3],
                       old_end |-> before_map[changed[i]][4],
                       new_start |-> after_map[changed[i]][3],
                       new_end |-> after_map[changed[i]][4]]>>]]

\* [diff_components with old_ast == new_ast as the test for a modification]
diff_components_inverted(before_map, after_map) ==
  LET addedSorted == sorted(DOMAIN after_map \ DOMAIN before_map)
      deletedSorted == sorted(DOMAIN before_map \ DOMAIN after_map)
      changed == SelectSeq(sorted(DOMAIN before_map \cap DOMAIN after_map),
                   LAMBDA n : before_map[n][1] = after_map[n][1])
  IN  [added |-> [i \in DOMAIN addedSorted |->
                    <<addedSorted[i], after_map[addedSorted[i]][2]>>],
       deleted |-> [i \in DOMAIN deletedSorted |->
                    <<deletedSorted[i], before_map[deletedSorted[i]][2]>>],
       modified |-> [i \in DOMAIN changed |->
                    <<changed[i], before_map[changed[i]][2], after_map[changed[i]][2],
                      [old_start |-> before_map[changed[i]][3],
                       old_end |-> before_map[changed[i]][4],
                       new_start |-> after_map[changed[i]][3],
                       new_end |-> after_map[changed[i]][4]]>>]]

diff_components(before_map, after_map) ==
  LET before_names == DOMAIN before_map
      after_names == DOMAIN after_map
      added_names == after_names \ before_names
      deleted_names == before_names \ after_names
      common == before_names \cap after_names
      addedSorted == sorted(added_names)
      deletedSorted == sorted(deleted_names)
      changed == SelectSeq(sorted(common),
                   LAMBDA n : before_map[n][1] # after_map[n][1])
  IN  [added |-> [i \in DOMAIN addedSorted |->
                    <<addedSorted[i], after_map[addedSorted[i]][2]>>],
       deleted |-> [i \in DOMAIN deletedSorted |->
                    <<deletedSorted[i], before_map[deletedSorted[i]][2]>>],
       modified |-> [i \in DOMAIN changed |->
                    <<changed[i], before_map[changed[i]][2], after_map[changed[i]][2],
                      [old_start |-> before_map[changed[i]][3],
                       old_end |-> before_map[changed[i]][4],
                       new_start |-> after_map[changed[i]][3],
                       new_end |-> after_map[changed[i]][4]]>>]]

(* ------------------------------------------------------------------ *)
(* DetailedChanges and the two entry points                           *)
(* ------------------------------------------------------------------ *)
DetailedChanges(module_name) ==
  [moduleName |-> module_name,
   addedFunctions |-> <<>>, modifiedFunctions |-> <<>>, deletedFunctions |-> <<>>,
   addedTypes |-> <<>>, modifiedTypes |-> <<>>, deletedTypes |-> <<>>,
   addedExternals |-> <<>>, modifiedExternals |-> <<>>, deletedExternals |-> <<>>]

\* the report after compare_two_files(old_file_ast, new_file_ast) on an
\* instance whose report was ch; raised when an extraction raised, before
\* any list is assigned
compare_two_files(ch, old_file_ast, new_file_ast) ==
  LET old == extract_components(old_file_ast)
      new == extract_components(new_file_ast)
      funcs_diff == diff_components(old.functions, new.functions)
      types_diff == diff_components(old.types, new.types)
      ext_diff == diff_components(old.externals, new.externals)
  IN  IF old.raised \/ new.raised
      THEN [changes |-> ch, raised |-> TRUE]
      ELSE [changes |->
              [ch EXCEPT !.addedFunctions = funcs_diff.added,
                         !.deletedFunctions = funcs_diff.deleted,
                         !.modifiedFunctions = funcs_diff.modified,
                         !.addedTypes = types_diff.added,
                         !.deletedTypes = types_diff.deleted,
                         !.modifiedTypes = types_diff.modified,
                         !.addedExternals = ext_diff.added,
                         !.deletedExternals = ext_diff.deleted,
                         !.modifiedExternals = ext_diff.modified],
            raised |-> FALSE]

\* [the list comprehension with sorted(names, reverse=True)]
ListingReversed(map) ==
  LET names == sorted(DOMAIN map)
      k == Len(names)
  IN  [i \in DOMAIN names |-> <<names[k + 1 - i], map[names[k + 1 - i]][2]>>]

\* [(n, map[n][1]) for n in sorted(names)]
Listing(map) ==
  LET names == sorted(DOMAIN map)
  IN  [i \in DOMAIN names |-> <<names[i], map[names[i]][2]>>]

\* [process_single_file filling a new DetailedChanges]
process_single_file_fresh(ch, file_ast, mode) ==
  LET ex == extract_components(file_ast)
      new == DetailedChanges(ch.moduleName)
  IN  IF ex.raised
      THEN [changes |-> ch, raised |-> TRUE]
      ELSE IF mode = "deleted"
      THEN [changes |-> [new EXCEPT !.deletedFunctions = Listing(ex.functions),
                                    !.deletedTypes = Listing(ex.types),
                                    !.deletedExternals = Listing(ex.externals)],
            raised |-> FALSE]
      ELSE [changes |-> [new EXCEPT !.addedFunctions = Listing(ex.functions),
                                    !.addedTypes = Listing(ex.types),
                                    !.addedExternals = Listing(ex.externals)],
            raised |-> FALSE]

\* [process_single_file that lists the functions only]
process_single_file_functions_only(ch, file_ast, mode) ==
  LET ex == extract_components(file_ast)
  IN  IF ex.raised
      THEN [changes |-> ch, raised |-> TRUE]
      ELSE IF mode = "deleted"
      THEN [changes |-> [ch EXCEPT !.deletedFunctions = Listing(ex.functions)],
            raised |-> FALSE]
      ELSE [changes |-> [ch EXCEPT !.addedFunctions = Listing(ex.functions)],
            raised |-> FALSE]

process_single_file(ch, file_ast, mode) ==
  LET ex == extract_components(file_ast)
  IN  IF ex.raised
      THEN [changes |-> ch, raised |-> TRUE]
      ELSE IF mode = "deleted"
      THEN [changes |-> [ch EXCEPT !.deletedFunctions = Listing(ex.functions),
                                   !.deletedTypes = Listing(ex.types),
                                   !.deletedExternals = Listing(ex.externals)],
            raised |-> FALSE]
      ELSE [changes |-> [ch EXCEPT !.addedFunctions = Listing(ex.functions),
                                   !.addedTypes = Listing(ex.types),
                                   !.addedExternals = Listing(ex.externals)],
            raised |-> FALSE]

(* ------------------------------------------------------------------ *)
(* ReScript sources as tree-sitter-rescript parses them               *)
(* ------------------------------------------------------------------ *)
Tok(type, text) == Leaf(type, FALSE, text)
Ident(text) == Leaf("value_identifier", TRUE, text)
Number(text) == Leaf("number", TRUE, text)

\* let <pattern> = <body>
LetDecl(pattern, body) ==
  Inner("let_declaration", TRUE,
        <<Tok("let", <<108, 101, 116>>),
          Inner("let_binding", TRUE, <<pattern, Tok("=", <<61>>), body>>, Spaced(3))>>,
        Spaced(2))

\* (a, b) => a <operator> b, with gap around the operator
AddFn(operator, gap) ==
  Inner("function", TRUE,
        <<Inner("formal_parameters", TRUE,
                <<Tok("(", <<40>>),
                  Inner("parameter", TRUE, <<Ident(<<97>>)>>, Tight(1)),
                  Tok(",", <<44>>),
                  Inner("parameter", TRUE, <<Ident(<<98>>)>>, Tight(1)),
                  Tok(")", <<41>>)>>,
                <<<<>>, <<>>, <<32>>, <<>>>>),
          Tok("=>", <<61, 62>>),
          Inner("binary_expression", TRUE,
                <<Ident(<<97>>), Tok(operator, operator), Ident(<<98>>)>>,
                <<gap, gap>>)>>,
        Spaced(3))

\* () => <number>, with gap between the parentheses
UnitFn(gap, number) ==
  Inner("function", TRUE,
        <<Inner("formal_parameters", TRUE,
                <<Tok("(", <<40>>), Tok(")", <<41>>)>>, <<gap>>),
          Tok("=>", <<61, 62>>),
          Number(number)>>,
        Spaced(3))

\* (a, b), the pattern of a destructuring let: no value_identifier under
\* the let_binding
TuplePattern ==
  Inner("tuple_pattern", TRUE,
        <<Tok("(", <<40>>),
          Inner("tuple_item_pattern", TRUE, <<Ident(<<97>>)>>, Tight(1)),
          Tok(",", <<44>>),
          Inner("tuple_item_pattern", TRUE, <<Ident(<<98>>)>>, Tight(1)),
          Tok(")", <<41>>)>>,
        <<<<>>, <<>>, <<32>>, <<>>>>)

\* type <name> = <type>
TypeDecl(nameNode, typeText) ==
  Inner("type_declaration", TRUE,
        <<Tok("type", <<116, 121, 112, 101>>),
          Inner("type_binding", TRUE,
                <<nameNode, Tok("=", <<61>>),
                  Leaf("type_identifier", TRUE, typeText)>>,
                Spaced(3))>>,
        Spaced(2))

\* external <name>: <type> = "<name>"
ExternalDecl(nameNode, typeText) ==
  Inner("external_declaration", TRUE,
        <<Tok("external", <<101, 120, 116, 101, 114, 110, 97, 108>>),
          nameNode,
          Inner("type_annotation", TRUE,
                <<Tok(":", <<58>>), Leaf("type_identifier", TRUE, typeText)>>,
                Spaced(2)),
          Tok("=", <<61>>),
          Inner("string", TRUE,
                <<Tok("\"", <<34>>), Leaf("string_fragment", TRUE, <<101>>),
                  Tok("\"", <<34>>)>>,
                Tight(3))>>,
        <<<<32>>, <<>>, <<32>>, <<32>>>>)

\* module <name> = { <decls> }
ModuleDecl(name, decls) ==
  Inner("module_declaration", TRUE,
        <<Tok("module", <<109, 111, 100, 117, 108, 101>>),
          Inner("module_binding", TRUE,
                <<Leaf("module_identifier", TRUE, name),
                  Tok("=", <<61>>),
                  Inner("block", TRUE,
                        <<Tok("{", <<123>>)>> \o decls \o <<Tok("}", <<125>>)>>,
                        Spaced(Len(decls) + 2))>>,
                Spaced(3))>>,
        Spaced(2))

\* let add = (a, b) => a + b
LetAddPlus == LetDecl(Ident(<<97, 100, 100>>), AddFn(<<43>>, <<32>>))
\* let add = (a, b) => a - b
LetAddMinus == LetDecl(Ident(<<97, 100, 100>>), AddFn(<<45>>, <<32>>))
\* let add = (a, b) => a+b
LetAddTight == LetDecl(Ident(<<97, 100, 100>>), AddFn(<<43>>, <<>>))
\* let f = () => 1
LetF1 == LetDecl(Ident(<<102>>), UnitFn(<<>>, <<49>>))
\* let f = ( ) => 1
LetF1Wide == LetDecl(Ident(<<102>>), UnitFn(<<32>>, <<49>>))
\* let f = () => 2
LetF2 == LetDecl(Ident(<<102>>), UnitFn(<<>>, <<50>>))
\* let (a, b) = 1
LetTuple == LetDecl(TuplePattern, Number(<<49>>))
\* type t = int   and   type t = string
TypeTInt == TypeDecl(Leaf("type_identifier", TRUE, <<116>>), <<105, 110, 116>>)
TypeTString ==
  TypeDecl(Leaf("type_identifier", TRUE, <<116>>), <<115, 116, 114, 105, 110, 103>>)
\* type M.t += A: the binding holds a type_identifier_path and no
\* type_identifier
TypeExtension ==
  Inner("type_declaration", TRUE,
        <<Tok("type", <<116, 121, 112, 101>>),
          Inner("type_binding", TRUE,
                <<Leaf("type_identifier_path", TRUE, <<77, 46, 116>>),
                  Tok("+=", <<43, 61>>),
                  Inner("variant_type", TRUE,
                        <<Inner("variant_declaration", TRUE,
                                <<Leaf("variant_identifier", TRUE, <<65>>)>>,
                                Tight(1))>>,
                        Tight(1))>>,
                Spaced(3))>>,
        Spaced(2))
\* external e: int = "e"   and   external e: string = "e"
ExternalEInt == ExternalDecl(Ident(<<101>>), <<105, 110, 116>>)
ExternalEString == ExternalDecl(Ident(<<101>>), <<115, 116, 114, 105, 110, 103>>)
\* module M = { let f = () => 1 }
ModuleLetF == ModuleDecl(<<77>>, <<LetF1>>)
\* module M = { let (a, b) = 1 }
ModuleLetTuple == ModuleDecl(<<77>>, <<LetTuple>>)
\* the same module with a name that is not valid UTF-8
ModuleBadName == ModuleDecl(<<77, 255>>, <<LetF2>>)

\* the file with no declarations
EmptyFile == Root("source_file", <<>>)

\* all sequences over S of length at most n
SeqsUpTo(S, n) == UNION {[1..k -> S] : k \in 0..n}

\* the names "f", "g", ... of the functions of Spec
NameOf(i) == <<101 + i>>

\* a file version of Spec: body[i] is the number function i returns, <<>> when
\* the version does not declare it; the functions stand in descending order
\* of their names
RECURSIVE VersionItemsFrom(_, _)
VersionItemsFrom(body, i) ==
  IF i = 0 THEN <<>>
  ELSE (IF body[i] = <<>> THEN <<>>
        ELSE <<LetDecl(Ident(NameOf(i)), UnitFn(<<>>, body[i]))>>)
       \o VersionItemsFrom(body, i - 1)

VersionTrees ==
  {Root("source_file", VersionItemsFrom(body, MaxNames)) :
     body \in [1..MaxNames -> {<<>>, <<49>>, <<50>>}]}

\* the versions of one declaration that SpecLeaf compares
LeafItems ==
  {LetAddPlus, LetAddMinus, LetAddTight, LetF1, LetF1Wide, LetF2,
   TypeTInt, TypeTString, ExternalEInt, ExternalEString}

LeafTrees == {Root("source_file", <<d>>) : d \in LeafItems} \cup {EmptyFile}

\* the top-level items of the files of SpecTree
TreeItems ==
  {LetF1, LetTuple, ModuleLetF, ModuleLetTuple, ModuleBadName,
   TypeTInt, TypeExtension, ExternalEInt}

\* parsed files: a source_file of some items, or an ERROR root over one item
FileTrees ==
  {Root("source_file", s) : s \in SeqsUpTo(TreeItems, MaxItems)}
    \cup {Root("ERROR", <<d>>) : d \in TreeItems}

\* trees whose root node is itself a declaration
BareTrees == {LetF1, LetTuple, TypeTInt, ExternalEInt}

(* ------------------------------------------------------------------ *)
(* One RescriptFileDiff instance and the calls made on it             *)
(* ------------------------------------------------------------------ *)
\* the values of mode: "deleted", and two values of the else branch
Modes == {"deleted", "added", "renamed"}

TheTree(which) == IF which = "old" THEN oldT ELSE newT

\* RescriptFileDiff(): self.changes = DetailedChanges("")
NewInstance ==
  /\ changes = DetailedChanges("")
  /\ op = "new"
  /\ arg = <<"", "">>
  /\ calls = 0
  /\ raised = FALSE

\* two versions of one file
Init ==
  /\ oldT \in VersionTrees
  /\ newT \in VersionTrees
  /\ NewInstance

\* two versions of one declaration
InitLeaf ==
  /\ oldT \in LeafTrees
  /\ newT \in LeafTrees
  /\ NewInstance

\* one file, as both versions or next to the empty file
InitTree ==
  /\ \E t \in FileTrees :
       \/ oldT = t /\ newT = t
       \/ oldT = t /\ newT = EmptyFile
       \/ oldT = EmptyFile /\ newT = t
  /\ NewInstance

\* one tree, a parsed file or a bare declaration node
InitNode ==
  /\ oldT \in FileTrees \cup BareTrees
  /\ newT = EmptyFile
  /\ NewInstance

\* self.compare_two_files(old, new)
CompareTwoFiles ==
  /\ calls < MaxCalls
  /\ LET r == compare_two_files(changes, oldT, newT)
     IN  /\ changes' = r.changes
         /\ raised' = r.raised
  /\ op' = "compare_two_files"
  /\ arg' = <<"", "">>
  /\ calls' = calls + 1
  /\ UNCHANGED <<oldT, newT>>

\* self.process_single_file(tree, mode)
ProcessSingleFile ==
  /\ calls < MaxCalls
  /\ \E which \in {"old", "new"}, mode \in Modes :
       /\ LET r == process_single_file(changes, TheTree(which), mode)
          IN  /\ changes' = r.changes
              /\ raised' = r.raised
       /\ arg' = <<which, mode>>
  /\ op' = "process_single_file"
  /\ calls' = calls + 1
  /\ UNCHANGED <<oldT, newT>>

Next == CompareTwoFiles \/ ProcessSingleFile

Spec == Init /\ [][Next]_vars
SpecLeaf == InitLeaf /\ [][Next]_vars
SpecTree == InitTree /\ [][Next]_vars
SpecNode == InitNode /\ [][Next]_vars

(* ------------------------------------------------------------------ *)
(* Vocabulary of the properties                                       *)
(* ------------------------------------------------------------------ *)
Names(list) == {list[i][1] : i \in DOMAIN list}

NineLists(ch) ==
  <<ch.addedFunctions, ch.modifiedFunctions, ch.deletedFunctions,
    ch.addedTypes, ch.modifiedTypes, ch.deletedTypes,
    ch.addedExternals, ch.modifiedExternals, ch.deletedExternals>>

Categories == {"functions", "types", "externals"}

MapOf(ex, cat) ==
  IF cat = "functions" THEN ex.functions
  ELSE IF cat = "types" THEN ex.types ELSE ex.externals

AddedOf(ch, cat) ==
  IF cat = "functions" THEN ch.addedFunctions
  ELSE IF cat = "types" THEN ch.addedTypes ELSE ch.addedExternals

DeletedOf(ch, cat) ==
  IF cat = "functions" THEN ch.deletedFunctions
  ELSE IF cat = "types" THEN ch.deletedTypes ELSE ch.deletedExternals

ModifiedOf(ch, cat) ==
  IF cat = "functions" THEN ch.modifiedFunctions
  ELSE IF cat = "types" THEN ch.modifiedTypes ELSE ch.modifiedExternals

IsDeclaration(node) ==
  node.type \in {"let_declaration", "type_declaration", "external_declaration"}

\* the declaration nodes of a tree that lie under named nodes which are not
\* declarations themselves, as paths
RECURSIVE DeclPathsFrom(_, _)
DeclPathsFrom(tree, path) ==
  LET n == NodeAt(tree, path)
  IN  IF IsDeclaration(n) THEN {path}
      ELSE UNION {DeclPathsFrom(tree, path \o <<i>>) :
                    i \in {j \in DOMAIN n.children : n.children[j].is_named}}

DeclPaths(tree) == DeclPathsFrom(tree, <<>>)

\* p comes before q in document order (pre-order, left to right)
DocBefore(p, q) == StrLess(p, q)

\* what get_decl_name finds for a declaration node
FoundName(node) ==
  IF node.type = "let_declaration"
  THEN get_decl_name(node, "let_binding", "value_identifier")
  ELSE IF node.type = "type_declaration"
  THEN get_decl_name(node, "type_binding", "type_identifier")
  ELSE get_decl_name(node, "", "value_identifier")

\* the paths of the declarations that extraction stored under key in cat
StoredUnder(ex, cat, key) ==
  {ex.visited[i].path : i \in {j \in DOMAIN ex.visited :
      ex.visited[j].cat = cat /\ ex.visited[j].key = key}}

\* the last of a set of paths in document order
LastPath(P) == CHOOSE p \in P : \A q \in P \ {p} : DocBefore(q, p)

\* the declaration node whose entry a map holds under key, when the later
\* declaration wins
DeclNode(tree, ex, cat, key) == NodeAt(tree, LastPath(StoredUnder(ex, cat, key)))

\* the texts of the childless nodes of a subtree, left to right
RECURSIVE LeafTexts(_)
LeafTexts(node) ==
  IF node.children = <<>> THEN <<node.text>>
  ELSE LET RECURSIVE cat(_)
           cat(cs) == IF cs = <<>> THEN <<>> ELSE LeafTexts(Head(cs)) \o cat(Tail(cs))
       IN  cat(node.children)

\* a subtree without its unnamed nodes: the type tags and the named nodes in
\* order, with the text of every named token
RECURSIVE NamedSkeleton(_)
NamedSkeleton(node) ==
  LET named == SelectSeq(node.children, LAMBDA c : c.is_named)
  IN  [type |-> node.type,
       text |-> IF node.children = <<>> THEN node.text ELSE <<>>,
       kids |-> [i \in DOMAIN named |-> NamedSkeleton(named[i])]]

(* ------------------------------------------------------------------ *)
(* C1                                                                 *)
(* ------------------------------------------------------------------ *)
PartitionOK(before, after, added, deleted, modified) ==
  LET A == Names(added)
      D == Names(deleted)
      M == Names(modified)
      common == DOMAIN before \cap DOMAIN after
      U == {n \in common : before[n][1] = after[n][1]}
  IN  /\ A \cap D = {} /\ A \cap M = {} /\ A \cap U = {}
      /\ D \cap M = {} /\ D \cap U = {} /\ M \cap U = {}
      /\ A \cup D \cup M \cup U = DOMAIN before \cup DOMAIN after
      /\ A = DOMAIN after \ DOMAIN before
      /\ \A i \in DOMAIN added : added[i][2] = after[added[i][1]][2]
      /\ D = DOMAIN before \ DOMAIN after
      /\ \A i \in DOMAIN deleted : deleted[i][2] = before[deleted[i][1]][2]
      /\ \A n \in common : n \in M <=> before[n][1] # after[n][1]

\* C1: after compare_two_files(old, new), in each category the names of the
\* added, deleted and modified lists and the unchanged names (common names
\* with equal signatures) are pairwise disjoint and together are exactly
\* keys(before) \cup keys(after); added is keys(after) - keys(before) with
\* the after text, deleted is keys(before) - keys(after) with the before
\* text, and a common name is modified iff its two signatures differ.
C1_Partition ==
  op = "compare_two_files" =>
    LET old == extract_components(oldT)
        new == extract_components(newT)
    IN  \A cat \in Categories :
          PartitionOK(MapOf(old, cat), MapOf(new, cat), AddedOf(changes, cat),
                      DeletedOf(changes, cat), ModifiedOf(changes, cat))

\* a compare that found an added and a modified function
C1_Witness ==
  /\ op = "compare_two_files"
  /\ changes.addedFunctions # <<>>
  /\ changes.modifiedFunctions # <<>>
  /\ DOMAIN extract_components(oldT).functions # {}

(* ------------------------------------------------------------------ *)
(* C6                                                                 *)
(* ------------------------------------------------------------------ *)
StrictlyAscending(list) ==
  \A i \in 1..(Len(list) - 1) : StrLess(list[i][1], list[i + 1][1])

\* C6: every one of the nine lists, written by diff_components or by
\* process_single_file, is strictly ascending by declaration name.
C6_Ascending ==
  \A i \in 1..9 : StrictlyAscending(NineLists(changes)[i])

\* process_single_file has listed two functions next to two modified ones
\* that an earlier compare_two_files left
C6_Witness ==
  /\ op = "process_single_file"
  /\ Len(changes.modifiedFunctions) >= 2
  /\ Len(changes.addedFunctions) >= 2

(* ------------------------------------------------------------------ *)
(* C10                                                                *)
(* ------------------------------------------------------------------ *)
AddedLists(ch) == <<ch.addedFunctions, ch.addedTypes, ch.addedExternals>>
DeletedLists(ch) == <<ch.deletedFunctions, ch.deletedTypes, ch.deletedExternals>>
ModifiedLists(ch) == <<ch.modifiedFunctions, ch.modifiedTypes, ch.modifiedExternals>>

\* C10: a process_single_file step leaves moduleName, the three modified
\* lists and the three lists of the other direction as they were (the deleted
\* lists are the ones written when mode is "deleted", the added lists for
\* every other mode), and a compare_two_files step gives the report a new
\* instance would give.
C10_Frame ==
  [][/\ op' = "process_single_file" =>
          /\ changes'.moduleName = changes.moduleName
          /\ ModifiedLists(changes') = ModifiedLists(changes)
          /\ IF arg'[2] = "deleted"
             THEN AddedLists(changes') = AddedLists(changes)
             ELSE DeletedLists(changes') = DeletedLists(changes)
     /\ op' = "compare_two_files" =>
          changes' = compare_two_files(DetailedChanges(""), oldT, newT).changes]_vars

\* process_single_file with a mode other than "added" and "deleted" has
\* returned a report that still holds a modified and a deleted entry
C10_Witness ==
  /\ op = "process_single_file"
  /\ arg[2] = "renamed"
  /\ changes.modifiedFunctions # <<>>
  /\ changes.deletedFunctions # <<>>
  /\ changes.addedFunctions # <<>>

(* ------------------------------------------------------------------ *)
(* C5                                                                 *)
(* ------------------------------------------------------------------ *)
\* C5: the first call on a new instance being process_single_file(T, mode),
\* its three deleted lists (mode "deleted") are those compare_two_files(T,
\* empty tree) gives on a new instance, and its three added lists (mode
\* "added") are those of compare_two_files(empty tree, T).
C5_SingleFileFraming ==
  (calls = 1 /\ op = "process_single_file" /\ ~raised) =>
    LET T == TheTree(arg[1])
        new == DetailedChanges("")
    IN  /\ arg[2] = "deleted" =>
             DeletedLists(changes) =
               DeletedLists(compare_two_files(new, T, EmptyFile).changes)
        /\ arg[2] = "added" =>
             AddedLists(changes) =
               AddedLists(compare_two_files(new, EmptyFile, T).changes)

\* process_single_file(T, "deleted") was the first call, on a file with a
\* function and a type
C5_Witness ==
  /\ calls = 1
  /\ op = "process_single_file"
  /\ arg[2] = "deleted"
  /\ changes.deletedFunctions # <<>>
  /\ changes.deletedTypes # <<>>

(* ------------------------------------------------------------------ *)
(* C7                                                                 *)
(* ------------------------------------------------------------------ *)
\* C7: compare_two_files(T, T) returns a report whose nine lists are empty.
C7_SelfDiffEmpty ==
  (op = "compare_two_files" /\ oldT = newT /\ ~raised) =>
    \A i \in 1..9 : NineLists(changes)[i] = <<>>

\* compare_two_files(T, T) has returned, for a T with two functions, after an
\* earlier call had filled a list
C7_Witness ==
  /\ op = "compare_two_files"
  /\ oldT = newT
  /\ calls = 2
  /\ Cardinality(DOMAIN extract_components(oldT).functions) = 2

(* ------------------------------------------------------------------ *)
(* C8                                                                 *)
(* ------------------------------------------------------------------ *)
LastWriteWins(tree) ==
  LET ex == extract_components(tree)
      v == ex.visited
  IN  /\ ~ex.raised
      /\ \A i \in 1..(Len(v) - 1) : DocBefore(v[i].path, v[i + 1].path)
      /\ {v[i].path : i \in DOMAIN v} = DeclPaths(tree)
      /\ \A cat \in Categories :
           /\ DOMAIN MapOf(ex, cat) =
                {v[i].key : i \in {j \in DOMAIN v : v[j].cat = cat}} \ {None}
           /\ \A key \in DOMAIN MapOf(ex, cat) :
                MapOf(ex, cat)[key] = Entry(DeclNode(tree, ex, cat, key))

\* C8: extract_components pops the declaration nodes of a tree in document
\* order, all of them, and of the declarations of one category that resolve
\* to one key the map keeps the entry (signature, text, start and end) of
\* the one that comes last in document order; it raises nothing.
C8_DocumentOrder ==
  op # "new" => LastWriteWins(oldT) /\ LastWriteWins(newT)

\* a call was made on a tree in which two functions resolve to one key
C8_Witness ==
  /\ op = "process_single_file"
  /\ arg[1] = "old"
  /\ LET ex == extract_components(oldT)
     IN  \E key \in DOMAIN ex.functions :
           Cardinality(StoredUnder(ex, "functions", key)) = 2

(* ------------------------------------------------------------------ *)
(* C2, C3, C4, C9: what the code does not do                          *)
(* ------------------------------------------------------------------ *)
\* C2: when the two versions of a same-named declaration differ in the text
\* of a childless node, their signatures differ and compare_two_files lists
\* the declaration as modified; for let add = (a, b) => a + b against
\* let add = (a, b) => a - b modifiedFunctions holds the one entry for "add"
\* and the other eight lists are empty.
C2_LeafTextChangeIsModified ==
  op = "compare_two_files" =>
    /\ \A cat \in Categories :
         \A key \in DOMAIN MapOf(extract_components(oldT), cat)
                      \cap DOMAIN MapOf(extract_components(newT), cat) :
           LET a == DeclNode(oldT, extract_components(oldT), cat, key)
               b == DeclNode(newT, extract_components(newT), cat, key)
           IN  LeafTexts(a) # LeafTexts(b) =>
                 /\ ast_to_tuple(a) # ast_to_tuple(b)
                 /\ key \in Names(ModifiedOf(changes, cat))
    /\ (oldT = Root("source_file", <<LetAddPlus>>)
          /\ newT = Root("source_file", <<LetAddMinus>>)) =>
         /\ Len(changes.modifiedFunctions) = 1
         /\ changes.modifiedFunctions[1][1] = <<97, 100, 100>>
         /\ changes.modifiedFunctions[1][2] = LetAddPlus.text
         /\ changes.modifiedFunctions[1][3] = LetAddMinus.text
         /\ \A i \in 1..9 : i # 2 => NineLists(changes)[i] = <<>>

\* C3: when the two versions of a same-named declaration have the same type
\* tags and the same named nodes in the same order with the same text, and
\* differ only in unnamed nodes and whitespace, their signatures are equal
\* and compare_two_files lists no modification of the declaration.
C3_UnnamedNodesDoNotCount ==
  op = "compare_two_files" =>
    \A cat \in Categories :
      \A key \in DOMAIN MapOf(extract_components(oldT), cat)
                   \cap DOMAIN MapOf(extract_components(newT), cat) :
        LET a == DeclNode(oldT, extract_components(oldT), cat, key)
            b == DeclNode(newT, extract_components(newT), cat, key)
        IN  NamedSkeleton(a) = NamedSkeleton(b) =>
              /\ ast_to_tuple(a) = ast_to_tuple(b)
              /\ key \notin Names(ModifiedOf(changes, cat))

\* the keys the maps hold for the declarations of a tree for which
\* get_decl_name finds no name; None stands for a declaration that was skipped
KeysOfNameless(tree) ==
  LET v == extract_components(tree).visited
  IN  {v[i].key : i \in {j \in DOMAIN v : FoundName(NodeAt(tree, v[j].path)) = None}}

\* C4: a declaration for which get_decl_name finds no name is entered into
\* none of the three maps, wherever it stands in the tree, so that no key of
\* the functions map is built from a missing name.
C4_NamelessIsSkipped ==
  op = "process_single_file" => KeysOfNameless(TheTree(arg[1])) \subseteq {None}

\* the key C9 gives a let_declaration with the name get_decl_name found
ExpectedKey(tree, path, name) ==
  IF ~HasParent(path) THEN name
  ELSE IF NodeAt(tree, Parent(path)).type = "source_file" THEN name
  ELSE IF ~HasParent(Parent(path)) THEN name
  ELSE LET first == NodeAt(tree, Parent(Parent(path))).children[1]
       IN  IF DecodeRaises(first.text) THEN name
           ELSE first.text \o <<32, 45, 45, 62, 32>> \o name

NamedLets(tree) ==
  {p \in DeclPaths(tree) :
     /\ NodeAt(tree, p).type = "let_declaration"
     /\ Truthy(FoundName(NodeAt(tree, p)))}

\* C9: for every let_declaration with a discoverable name that extraction
\* reaches, extraction does not raise and stores the declaration under the
\* qualified name when the lookup of the enclosing name succeeds, and under
\* the unqualified name when a step of the lookup fails, a missing parent of
\* the node included.
C9_QualificationNeverFatal ==
  (op = "process_single_file" /\ arg[1] = "old" /\ NamedLets(oldT) # {}) =>
    /\ ~raised
    /\ LET ex == extract_components(oldT)
       IN  \A p \in NamedLets(oldT) :
             p \in StoredUnder(ex, "functions",
                               ExpectedKey(oldT, p, FoundName(NodeAt(oldT, p))))

====
